---- MODULE Spec2Model ----
(***************************************************************************)
(* A model of crowd.py (python-crowd): one CrowdServer object shared by    *)
(* the callers of Callers.  Every public method sends one request through  *)
(* self.session and maps the response's status code and body to a return   *)
(* value or a raised exception.  The transport (requests) is the           *)
(* environment: it answers a request in flight with any status and body,   *)
(* or raises.                                                              *)
(***************************************************************************)
EXTENDS Integers, Sequences, FiniteSets, TLC

\* ------------------------------------------------------------------ bounds

\* The most keyword arguments a caller passes to add_user / add_group.
MaxKwargs == 4

\* ------------------------------------------------------------- the callers

\* The callers (threads) that share the one CrowdServer instance.
Callers == {"a", "b"}

\* The interpreters the module runs under: Python 2 and Python 3.
Pythons == {2, 3}

\* ----------------------------------------------------------------- strings

\* Strings the code inspects are sequences of one-character strings.
LowerChar(ch) ==
    CASE ch = "G" -> "g"
      [] ch = "R" -> "r"
      [] ch = "O" -> "o"
      [] ch = "U" -> "u"
      [] ch = "P" -> "p"
      [] ch = "S" -> "s"
      [] ch = "E" -> "e"
      [] OTHER -> ch

\* str.lower()
lower(s) == [i \in 1..Len(s) |-> LowerChar(s[i])]

\* str.startswith(prefix)
startswith(s, prefix) ==
    /\ Len(s) >= Len(prefix)
    /\ SubSeq(s, 1, Len(prefix)) = prefix

\* str.replace(old, new) for one-character old and new
replace(s, old, new) == [i \in 1..Len(s) |-> IF s[i] = old THEN new ELSE s[i]]

\* str.rstrip(ch)
RECURSIVE rstrip(_, _)
rstrip(s, ch) ==
    IF s # <<>> /\ s[Len(s)] = ch
      THEN rstrip(SubSeq(s, 1, Len(s) - 1), ch)
      ELSE s

\* The literals 'group' and 'user' of remove_user_from_group.
GroupWord == <<"g", "r", "o", "u", "p">>
UserWord == <<"u", "s", "e", "r">>

\* ---------------------------------------------------------- keyword names

\* A keyword name is a sequence of characters too ("_" and "-" matter).
K_email == <<"e", "m">>
K_password == <<"p", "w">>
K_first_name == <<"f", "_", "n">>
K_active == <<"a">>
K_name == <<"n">>
K_description == <<"d">>
K_foo == <<"x">>
K_zip_code == <<"z", "_", "c">>

\* The keyword names callers pass to add_user and to add_group.
UserKeyUniverse == {K_email, K_password, K_first_name, K_foo, K_zip_code}
GroupKeyUniverse == {K_active, K_email, K_foo, K_zip_code}

NoKey == <<>>

\* The keys of the dict add_user builds (lines 319-327).
UserDataKeys == {K_name, <<"f", "-", "n">>, <<"l", "-", "n">>, <<"d", "-", "n">>,
                 K_email, K_password, K_active}

\* The keys of the dict add_group builds (lines 522-527).
GroupDataKeys == {K_name, K_description, K_active, <<"t">>}

RECURSIVE Orders(_)
\* The orders kwargs.items() may yield the keys of a dict in.
Orders(S) ==
    IF S = {} THEN {<<>>}
    ELSE UNION {{<<k>> \o o : o \in Orders(S \ {k})} : k \in S}

\* The keyword dicts a caller may pass.
KwargSets(universe) == {S \in SUBSET universe : Cardinality(S) <= MaxKwargs}

\* --------------------------------------------------------------- transport

JSONHeaders == [ctype |-> "application/json", accept |-> "application/json"]
XMLHeaders == [ctype |-> "application/xml", accept |-> "application/xml"]

\* dict.update on the session's headers
HeadersUpdate(h, u) ==
    [k \in DOMAIN h \cup DOMAIN u |-> IF k \in DOMAIN u THEN u[k] ELSE h[k]]

\* The status codes the transport answers with.
Statuses == {200, 201, 204, 304, 400, 401, 403, 404, 409, 500}

\* requests' Response.ok: no 4xx or 5xx status
Ok(status) == ~(400 <= status /\ status < 600)

\* The 'message' texts of a response body.
Messages == {
    <<"G", "r", "o", "u", "p", " ", "x">>,
    <<"g", "r", "o", "u", "p">>,
    <<"U", "s", "e", "r", " ", "x">>,
    <<"U", "S", "E", "R">>,
    <<"u", "s", "e", "r", "g", "r", "o", "u", "p">>,
    <<"g", "r", "o", "u">>,
    <<"x", "u", "s", "e", "r">>,
    <<>> }

\* Response bodies: undecodable, a JSON object without the expected member,
\* a JSON object with the list member, a JSON object with a 'message'.
GarbageBody == [decodable |-> FALSE, members |-> {}, message |-> <<>>]
EmptyBody == [decodable |-> TRUE, members |-> {}, message |-> <<>>]
ListBody == [decodable |-> TRUE, members |-> {"groups", "users"}, message |-> <<>>]
MessageBody(m) == [decodable |-> TRUE, members |-> {"message"}, message |-> m]

\* A response of the transport.
Response(status, body) == [status |-> status, body |-> body]

\* ----------------------------------------------------------------- results

\* What a call ends with: a returned value or a raised exception.  text is
\* the exception's fixed message, code the status code formatted into it
\* (0: none), msg the body's 'message' it carries, key the keyword it names.
Result(kind, text, code, msg, key) ==
    [kind |-> kind, text |-> text, code |-> code, msg |-> msg, key |-> key]

Return(kind) == Result(kind, "", 0, <<>>, NoKey)
Raise(kind, text) == Result(kind, text, 0, <<>>, NoKey)

\* No call has ended yet.
Pending == Return("pending")

\* CrowdError.__init__: an empty message becomes the default one.
CrowdError(message) ==
    Raise("CrowdError",
          IF message = "" THEN "unexpected response from Crowd server" ELSE message)

\* CrowdError("... %d" % response.status_code)
CrowdErrorWithStatus(message, status) ==
    Result("CrowdError", message, status, <<>>, NoKey)

\* response.json(): the parsed body, or the decoder's error.
json(body) == IF body.decodable THEN Return("Json") ELSE Raise("JSONDecodeError", "")

\* raise CrowdAuthFailure(response.json()['message'])
AuthFailureWithMessage(body) ==
    IF ~body.decodable THEN Raise("JSONDecodeError", "")
    ELSE IF "message" \notin body.members THEN Raise("KeyError", "message")
    ELSE Result("CrowdAuthFailure", "", 0, body.message, NoKey)

\* [x['name'] for x in response.json()[member]]
names(body, member) ==
    IF ~body.decodable THEN Raise("JSONDecodeError", "")
    ELSE IF member \notin body.members THEN Raise("KeyError", member)
    ELSE Return("Names")

\* xmltodict.parse(response.content)
xmlparse(body) == IF body.decodable THEN Return("Xml") ELSE Raise("ExpatError", "")

\* The value kinds a call returns, as opposed to the exceptions it raises.
ReturnKinds == {"True", "False", "None", "Json", "Names", "Xml"}

\* ---------------------------------------------- status-code to outcome maps

\* auth_ping with its two answers exchanged.
auth_ping_response_swapped(r) ==
    IF r.status = 401 THEN Return("True")
    ELSE IF r.status = 404 THEN Return("False")
    ELSE CrowdError("unidentified problem")

auth_ping_response(r) ==
    IF r.status = 401 THEN Return("False")
    ELSE IF r.status = 404 THEN Return("True")
    ELSE CrowdError("unidentified problem")

auth_user_response(r) ==
    IF r.status = 200 THEN json(r.body)
    ELSE IF r.status = 400 THEN AuthFailureWithMessage(r.body)
    ELSE CrowdError("")

get_session_response(r) ==
    IF r.status = 201 THEN json(r.body)
    ELSE IF r.status = 400 THEN AuthFailureWithMessage(r.body)
    ELSE CrowdError("")

validate_session_response(r) ==
    IF ~Ok(r.status) THEN Raise("CrowdAuthFailure", "")
    ELSE json(r.body)

\* terminate_session taking any ok status for a terminated session.
terminate_session_response_any_ok(r) ==
    IF Ok(r.status) THEN Return("True")
    ELSE CrowdError("")

terminate_session_response(r) ==
    IF r.status = 204 THEN Return("True")
    ELSE CrowdError("")

add_user_response(r) ==
    IF r.status = 201 THEN Return("True")
    ELSE IF r.status = 400 THEN Raise("CrowdUserExists", "")
    ELSE IF r.status = 403
      THEN Raise("CrowdAuthDenied", "application is not allowed to create a new user")
    ELSE CrowdError("")

remove_user_response(r) ==
    IF r.status = 204 THEN Return("True")
    ELSE IF r.status = 403
      THEN Raise("CrowdAuthDenied", "application is not allowed to delete user")
    ELSE IF r.status = 404 THEN Raise("CrowdNoSuchUser", "")
    ELSE CrowdError("")

\* get_user raising on 404, as remove_user does.
get_user_response_raising(r) ==
    IF r.status = 200 THEN json(r.body)
    ELSE IF r.status = 404 THEN Raise("CrowdNoSuchUser", "")
    ELSE CrowdError("")

get_user_response(r) ==
    IF r.status = 200 THEN json(r.body)
    ELSE IF r.status = 404 THEN Return("None")
    ELSE CrowdError("")

get_user_direct_group_response(r) ==
    IF r.status = 200 THEN json(r.body)
    ELSE IF r.status = 404 THEN Return("None")
    ELSE CrowdError("")

get_child_group_direct_response(r) ==
    IF r.status = 200 THEN json(r.body)
    ELSE IF r.status = 404 THEN Return("None")
    ELSE CrowdError("")

get_group_membership_response(r) ==
    IF r.status = 200 THEN xmlparse(r.body)
    ELSE IF r.status = 404 THEN Return("None")
    ELSE CrowdError("")

get_group_users_direct_response(r) ==
    IF r.status = 200 THEN json(r.body)
    ELSE IF r.status = 404 THEN Return("None")
    ELSE CrowdError("")

add_group_response(r) ==
    IF r.status = 201 THEN Return("True")
    ELSE IF r.status = 400 THEN Raise("CrowdGroupExists", "")
    ELSE IF r.status = 403 THEN Raise("CrowdAuthFailure", "")
    ELSE CrowdErrorWithStatus("status code %d", r.status)

get_groups_response(r) ==
    IF r.status = 200 THEN names(r.body, "groups")
    ELSE IF r.status = 404 THEN Return("None")
    ELSE CrowdError("")

get_nested_groups_response(r) ==
    IF r.status = 200 THEN names(r.body, "groups")
    ELSE IF r.status = 404 THEN Return("None")
    ELSE CrowdError("")

get_nested_group_users_response(r) ==
    IF ~Ok(r.status) THEN Return("None")
    ELSE names(r.body, "users")

\* add_user_to_group with the table of add_user: 400 taken for "exists".
add_user_to_group_response_as_creation(r) ==
    IF r.status = 201 THEN Return("True")
    ELSE IF r.status = 400 THEN Raise("CrowdUserExists", "")
    ELSE IF r.status = 404 THEN Raise("CrowdNoSuchGroup", "")
    ELSE IF r.status = 409 THEN Raise("CrowdUserExists", "")
    ELSE CrowdErrorWithStatus("received server response %d", r.status)

add_user_to_group_response(r) ==
    IF r.status = 201 THEN Return("True")
    ELSE IF r.status = 400 THEN Raise("CrowdNoSuchUser", "")
    ELSE IF r.status = 404 THEN Raise("CrowdNoSuchGroup", "")
    ELSE IF r.status = 409 THEN Raise("CrowdUserExists", "")
    ELSE CrowdErrorWithStatus("received server response %d", r.status)

add_child_group_to_group_response(r) ==
    IF r.status = 201 THEN Return("True")
    ELSE IF r.status = 400 THEN Raise("CrowdNoSuchUser", "")
    ELSE IF r.status = 404 THEN Raise("CrowdNoSuchGroup", "")
    ELSE CrowdErrorWithStatus("received server response %d", r.status)

\* remove_user_from_group matching the message without lower().
remove_user_from_group_response_cased(r) ==
    IF r.status = 204 THEN Return("True")
    ELSE IF r.status = 404 THEN
      IF ~r.body.decodable THEN Raise("JSONDecodeError", "")
      ELSE IF "message" \notin r.body.members THEN Raise("KeyError", "message")
      ELSE IF startswith(r.body.message, GroupWord) THEN Raise("CrowdNoSuchGroup", "")
      ELSE IF startswith(r.body.message, UserWord) THEN Raise("CrowdNoSuchUser", "")
      ELSE CrowdError("unknown server response")
    ELSE CrowdError("")

remove_user_from_group_response(r) ==
    IF r.status = 204 THEN Return("True")
    ELSE IF r.status = 404 THEN
      IF ~r.body.decodable THEN Raise("JSONDecodeError", "")
      ELSE IF "message" \notin r.body.members THEN Raise("KeyError", "message")
      ELSE IF startswith(lower(r.body.message), GroupWord) THEN Raise("CrowdNoSuchGroup", "")
      ELSE IF startswith(lower(r.body.message), UserWord) THEN Raise("CrowdNoSuchUser", "")
      ELSE CrowdError("unknown server response")
    ELSE CrowdError("")

\* user_exists testing for 200 instead of response.ok.
user_exists_response_200(r) ==
    IF r.status # 200 THEN Return("None")
    ELSE Return("True")

user_exists_response(r) ==
    IF ~Ok(r.status) THEN Return("None")
    ELSE Return("True")

group_exists_response(r) ==
    IF ~Ok(r.status) THEN Return("None")
    ELSE Return("True")


\* The response mapping of each method.
Outcome(op, r) ==
    CASE op = "auth_ping" -> auth_ping_response(r)
      [] op = "auth_user" -> auth_user_response(r)
      [] op = "get_session" -> get_session_response(r)
      [] op = "validate_session" -> validate_session_response(r)
      [] op = "terminate_session" -> terminate_session_response(r)
      [] op = "add_user" -> add_user_response(r)
      [] op = "remove_user" -> remove_user_response(r)
      [] op = "get_user" -> get_user_response(r)
      [] op = "get_user_direct_group" -> get_user_direct_group_response(r)
      [] op = "get_child_group_direct" -> get_child_group_direct_response(r)
      [] op = "get_group_membership" -> get_group_membership_response(r)
      [] op = "get_group_users_direct" -> get_group_users_direct_response(r)
      [] op = "add_group" -> add_group_response(r)
      [] op = "get_groups" -> get_groups_response(r)
      [] op = "get_nested_groups" -> get_nested_groups_response(r)
      [] op = "get_nested_group_users" -> get_nested_group_users_response(r)
      [] op = "add_user_to_group" -> add_user_to_group_response(r)
      [] op = "add_child_group_to_group" -> add_child_group_to_group_response(r)
      [] op = "remove_user_from_group" -> remove_user_from_group_response(r)
      [] op = "user_exists" -> user_exists_response(r)
      [] op = "group_exists" -> group_exists_response(r)

\* The bodies the transport may answer with.  A body the method does not
\* read at that status is left out of the model (EmptyBody stands for it).
Bodies(op, status) ==
    IF op = "remove_user_from_group" /\ status = 404
      THEN {GarbageBody, EmptyBody} \cup {MessageBody(m) : m \in Messages}
    ELSE IF op \in {"auth_user", "get_session"} /\ status = 400
      THEN {GarbageBody, EmptyBody, MessageBody(<<"x">>)}
    ELSE IF \/ op = "auth_user" /\ status = 200
            \/ op = "get_session" /\ status = 201
            \/ op = "validate_session" /\ Ok(status)
            \/ op \in {"get_user", "get_user_direct_group", "get_child_group_direct",
                       "get_group_membership", "get_group_users_direct"} /\ status = 200
      THEN {GarbageBody, EmptyBody}
    ELSE IF \/ op \in {"get_groups", "get_nested_groups"} /\ status = 200
            \/ op = "get_nested_group_users" /\ Ok(status)
      THEN {GarbageBody, EmptyBody, ListBody}
    ELSE {EmptyBody}

\* -------------------------------------------------------- local validation

RECURSIVE FirstInvalid(_, _, _)
\* The loops of add_user and add_group over kwargs.items(): the first key,
\* in iteration order, that is not a key of data (NoKey when all are).
\* dashed: add_user looks k.replace("_", "-") up, add_group looks k up.
FirstInvalid(order, dataKeys, dashed) ==
    IF order = <<>> THEN NoKey
    ELSE IF (IF dashed THEN replace(Head(order), "_", "-") ELSE Head(order)) \notin dataKeys
      THEN Head(order)
    ELSE FirstInvalid(Tail(order), dataKeys, dashed)

\* The except clause of add_user: "missing %s" % e.message.  KeyError has a
\* message attribute under Python 2 and none under Python 3, where reading
\* it raises AttributeError.
MissingArgument(python, k) ==
    IF python = 2 THEN Result("ValueError", "missing %s", 0, <<>>, k)
    ELSE Raise("AttributeError", "message")

\* add_user looking k up instead of k.replace("_", "-"), and only in kwargs.
add_user_check_unchecked(python, kwargs, order) ==
    IF K_email \notin kwargs THEN MissingArgument(python, K_email)
    ELSE IF K_password \notin kwargs THEN MissingArgument(python, K_password)
    ELSE IF FirstInvalid(order, kwargs, FALSE) # NoKey
      THEN Result("ValueError", "invalid argument %s", 0, <<>>,
                  FirstInvalid(order, kwargs, FALSE))
    ELSE Pending

\* Lines 318-339 of add_user: Pending when the request is to be sent, and
\* the exception raised otherwise.  order is the iteration order of kwargs
\* after del(kwargs["password"]).
add_user_check(python, kwargs, order) ==
    IF K_email \notin kwargs THEN MissingArgument(python, K_email)
    ELSE IF K_password \notin kwargs THEN MissingArgument(python, K_password)
    ELSE IF FirstInvalid(order, UserDataKeys, TRUE) # NoKey
      THEN Result("ValueError", "invalid argument %s", 0, <<>>,
                  FirstInvalid(order, UserDataKeys, TRUE))
    ELSE Pending

\* Lines 522-532 of add_group.
add_group_check(kwargs, order) ==
    IF FirstInvalid(order, GroupDataKeys, FALSE) # NoKey
      THEN Result("ValueError", "invalid argument %s", 0, <<>>,
                  FirstInvalid(order, GroupDataKeys, FALSE))
    ELSE Pending

\* -------------------------------------------------------------------- state

VARIABLES
    py,        \* the interpreter's major version
    self,      \* the CrowdServer's own attributes
    session,   \* self.session: verify, auth and the default headers
    pc,        \* where each caller is: "idle", or inside get_group_membership
               \* with the headers "updated" or "waiting" for the response
    inflight,  \* each caller's request in flight
    last       \* the call that ended last: its request, response and outcome

vars == <<py, self, session, pc, inflight, last>>

CrowdUrl == <<"h", "/", "/">>
RestRoot == <<"/rest/usermanagement/1">>

NoRequest == [method |-> "", base |-> <<>>, path |-> "", headers |-> JSONHeaders,
              auth |-> <<>>]
NoResponse == Response(0, EmptyBody)

\* What the transport does with a request: it answers, or it raises
\* (connection refused, timeout).
TransportError == [raised |-> TRUE, response |-> NoResponse]
Answered(r) == [raised |-> FALSE, response |-> r]
Answers(op) ==
    {TransportError}
      \cup UNION {{Answered(Response(st, b)) : b \in Bodies(op, st)} : st \in Statuses}

\* No method catches what the transport raises.
Handle(op, answer) ==
    IF answer.raised THEN Raise("RequestException", "")
    ELSE Outcome(op, answer.response)

\* CrowdServer.__init__
Init ==
    /\ py \in Pythons
    /\ self = [crowd_url |-> CrowdUrl, app_name |-> "app", app_pass |-> "secret",
               rest_url |-> rstrip(CrowdUrl, "/") \o RestRoot]
    /\ session = [verify |-> FALSE, auth |-> <<"app", "secret">>,
                  headers |-> HeadersUpdate([accept |-> "*/*"], JSONHeaders)]
    /\ pc = [c \in Callers |-> "idle"]
    /\ inflight = [c \in Callers |-> NoRequest]
    /\ last = [op |-> "", kwargs |-> {}, req |-> NoRequest, nreq |-> 0,
               concurrent |-> FALSE, resp |-> NoResponse, ret |-> Pending]

\* ------------------------------------------------------------------ actions

\* _get, _post, _delete: self.session sends the request with the session's
\* headers and credentials as they are at that moment.
Request(method, path) ==
    [method |-> method, base |-> self.rest_url, path |-> path,
     headers |-> session.headers, auth |-> session.auth]

\* Another caller is inside get_group_membership right now.
Overlaps(c) == \E d \in Callers \ {c} : pc[d] # "idle"

\* A method that sends its request at once: the request, the transport's
\* answer and the method's mapping of it.  Between the send and the return
\* the method touches nothing shared, so the call is one step.
Call(c, op, method, path) ==
    /\ \E answer \in Answers(op) :
         last' = [op |-> op, kwargs |-> {}, req |-> Request(method, path), nreq |-> 1,
                  concurrent |-> Overlaps(c),
                  resp |-> answer.response, ret |-> Handle(op, answer)]
    /\ UNCHANGED <<py, self, session, pc, inflight>>

\* A method with keyword arguments: it raises before any request when the
\* check fails (checked is the exception), and sends its request otherwise.
CallChecked(c, op, kwargs, checked, method, path) ==
    /\ IF checked # Pending
         THEN last' = [op |-> op, kwargs |-> kwargs, req |-> NoRequest, nreq |-> 0,
                       concurrent |-> Overlaps(c),
                       resp |-> NoResponse, ret |-> checked]
         ELSE \E answer \in Answers(op) :
                last' = [op |-> op, kwargs |-> kwargs, req |-> Request(method, path),
                         nreq |-> 1, concurrent |-> Overlaps(c),
                         resp |-> answer.response, ret |-> Handle(op, answer)]
    /\ UNCHANGED <<py, self, session, pc, inflight>>

auth_ping(c) ==
    /\ pc[c] = "idle"
    /\ Call(c, "auth_ping", "GET", "/non-existent/location")

auth_user(c) ==
    /\ pc[c] = "idle"
    /\ Call(c, "auth_user", "POST", "/authentication")

get_session(c) ==
    /\ pc[c] = "idle"
    /\ Call(c, "get_session", "POST", "/session")

validate_session(c) ==
    /\ pc[c] = "idle"
    /\ Call(c, "validate_session", "POST", "/session/%s")

terminate_session(c) ==
    /\ pc[c] = "idle"
    /\ Call(c, "terminate_session", "DELETE", "/session/%s")

remove_user(c) ==
    /\ pc[c] = "idle"
    /\ Call(c, "remove_user", "DELETE", "/user")

get_user(c) ==
    /\ pc[c] = "idle"
    /\ Call(c, "get_user", "GET", "/user")

get_user_direct_group(c) ==
    /\ pc[c] = "idle"
    /\ Call(c, "get_user_direct_group", "GET", "/group/user/direct")

get_child_group_direct(c) ==
    /\ pc[c] = "idle"
    /\ Call(c, "get_child_group_direct", "GET", "/group/child-group/direct")

get_group_users_direct(c) ==
    /\ pc[c] = "idle"
    /\ Call(c, "get_group_users_direct", "GET", "/group/user/direct")

get_groups(c) ==
    /\ pc[c] = "idle"
    /\ Call(c, "get_groups", "GET", "/user/group/direct")

get_nested_groups(c) ==
    /\ pc[c] = "idle"
    /\ Call(c, "get_nested_groups", "GET", "/user/group/nested")

get_nested_group_users(c) ==
    /\ pc[c] = "idle"
    /\ Call(c, "get_nested_group_users", "GET", "/group/user/nested")

add_user_to_group(c) ==
    /\ pc[c] = "idle"
    /\ Call(c, "add_user_to_group", "POST", "/group/user/direct")

add_child_group_to_group(c) ==
    /\ pc[c] = "idle"
    /\ Call(c, "add_child_group_to_group", "POST", "/group/child-group/direct")

remove_user_from_group(c) ==
    /\ pc[c] = "idle"
    /\ Call(c, "remove_user_from_group", "DELETE", "/group/user/direct")

user_exists(c) ==
    /\ pc[c] = "idle"
    /\ Call(c, "user_exists", "GET", "/user")

group_exists(c) ==
    /\ pc[c] = "idle"
    /\ Call(c, "group_exists", "GET", "/group")

add_user(c) ==
    /\ pc[c] = "idle"
    /\ \E kwargs \in KwargSets(UserKeyUniverse) : \E order \in Orders(kwargs \ {K_password}) :
      CallChecked(c, "add_user", kwargs, add_user_check(py, kwargs, order),
                  "POST", "/user")

add_group(c) ==
    /\ pc[c] = "idle"
    /\ \E kwargs \in KwargSets(GroupKeyUniverse) : \E order \in Orders(kwargs) :
      CallChecked(c, "add_group", kwargs, add_group_check(kwargs, order),
                  "POST", "/group")

\* get_group_membership, lines 472-475: self.session.headers.update(...)
get_group_membership(c) ==
    /\ pc[c] = "idle"
    /\ session' = [session EXCEPT !.headers = HeadersUpdate(@, XMLHeaders)]
    /\ pc' = [pc EXCEPT ![c] = "updated"]
    /\ UNCHANGED <<py, self, inflight, last>>

\* get_group_membership, line 477: self._get(self.rest_url + "/group/membership")
get_group_membership_get(c) ==
    /\ pc[c] = "updated"
    /\ inflight' = [inflight EXCEPT ![c] = Request("GET", "/group/membership")]
    /\ pc' = [pc EXCEPT ![c] = "waiting"]
    /\ UNCHANGED <<py, self, session, last>>

\* get_group_membership, lines 479-485: the answer and its mapping.
get_group_membership_return(c) ==
    /\ pc[c] = "waiting"
    /\ \E answer \in Answers("get_group_membership") :
         last' = [op |-> "get_group_membership", kwargs |-> {}, req |-> inflight[c],
                  nreq |-> 1, concurrent |-> Overlaps(c),
                  resp |-> answer.response,
                  ret |-> Handle("get_group_membership", answer)]
    /\ inflight' = [inflight EXCEPT ![c] = NoRequest]
    /\ pc' = [pc EXCEPT ![c] = "idle"]
    /\ UNCHANGED <<py, self, session>>

Next ==
    \E c \in Callers :
      \/ auth_ping(c)
      \/ auth_user(c)
      \/ get_session(c)
      \/ validate_session(c)
      \/ terminate_session(c)
      \/ add_user(c)
      \/ remove_user(c)
      \/ get_user(c)
      \/ get_user_direct_group(c)
      \/ get_child_group_direct(c)
      \/ get_group_membership(c)
      \/ get_group_users_direct(c)
      \/ add_group(c)
      \/ get_groups(c)
      \/ get_nested_groups(c)
      \/ get_nested_group_users(c)
      \/ add_user_to_group(c)
      \/ add_child_group_to_group(c)
      \/ remove_user_from_group(c)
      \/ user_exists(c)
      \/ group_exists(c)
      \/ get_group_membership_get(c)
      \/ get_group_membership_return(c)

Spec == Init /\ [][Next]_vars

\* ------------------------------------------------------------------- claims

\* The transport answered the last call (it did not raise, and a request
\* was sent).
GotResponse == last.nreq = 1 /\ last.resp # NoResponse

SentJSON(request) ==
    /\ request.headers.ctype = "application/json"
    /\ request.headers.accept = "application/json"

SentXML(request) ==
    /\ request.headers.ctype = "application/xml"
    /\ request.headers.accept = "application/xml"

\* C1: in any sequence of calls, every request other than the GET to
\* /group/membership is sent with Content-type and Accept application/json,
\* also after a get_group_membership call has returned or raised.  (Calls
\* that overlap a get_group_membership in progress are C10's.)
C1_OnlyMembershipSentAsXML ==
    (last.nreq = 1 /\ ~last.concurrent /\ last.req.path # "/group/membership") =>
        SentJSON(last.req)

\* C2: add_user without email or without password issues no request and
\* raises ValueError naming the missing field.
C2_MissingFieldIsValueError ==
    (last.op = "add_user" /\ {K_email, K_password} \ last.kwargs # {}) =>
        /\ last.nreq = 0
        /\ last.ret.kind = "ValueError"
        /\ last.ret.key \in {K_email, K_password} \ last.kwargs

\* The caller-supplied keys that are no attribute of the entity.
UnknownKeys(op, kwargs) ==
    IF op = "add_user"
      THEN {k \in kwargs : k # K_password /\ replace(k, "_", "-") \notin UserDataKeys}
      ELSE {k \in kwargs : k \notin GroupDataKeys}

\* C3 as stated: add_user and add_group with an unrecognised key raise
\* ValueError naming such a key and issue no request, whatever the other
\* keys are.
C3_UnknownKeyAlwaysNamed ==
    (last.op \in {"add_user", "add_group"} /\ UnknownKeys(last.op, last.kwargs) # {}) =>
        /\ last.nreq = 0
        /\ last.ret.kind = "ValueError"
        /\ last.ret.key \in UnknownKeys(last.op, last.kwargs)

\* C3 as amended: with an unrecognised key no request is issued; add_group,
\* and add_user when email and password are both supplied, raise ValueError
\* "invalid argument" naming an unrecognised key, in whatever order the keys
\* are iterated.
C3_UnknownKeyRejected ==
    (last.op \in {"add_user", "add_group"} /\ UnknownKeys(last.op, last.kwargs) # {}) =>
        /\ last.nreq = 0
        /\ last.req = NoRequest
        /\ (last.op = "add_group" \/ {K_email, K_password} \subseteq last.kwargs) =>
             /\ last.ret.kind = "ValueError"
             /\ last.ret.text = "invalid argument %s"
             /\ last.ret.key \in UnknownKeys(last.op, last.kwargs)

\* C3's case: add_user with email, password and two unrecognised keys, the
\* second of which is the one named.
C3_Witness ==
    /\ last.op = "add_user"
    /\ last.kwargs = {K_email, K_password, K_foo, K_zip_code}
    /\ last.ret.kind = "ValueError"
    /\ last.ret.key = K_zip_code
    /\ last.nreq = 0

\* Case-insensitively, the message begins with the word.
BeginsWith(message, word) ==
    /\ Len(message) >= Len(word)
    /\ \A i \in 1..Len(word) : LowerChar(message[i]) = word[i]

\* C4: remove_user_from_group: 204 returns True; 404 with a message that
\* begins with 'group' raises CrowdNoSuchGroup, with 'user' CrowdNoSuchUser,
\* with any other message CrowdError; every other status raises CrowdError.
C4_RemoveUserFromGroupTable ==
    (last.op = "remove_user_from_group" /\ GotResponse) =>
        /\ last.resp.status = 204 => last.ret = Return("True")
        /\ (last.resp.status = 404 /\ "message" \in last.resp.body.members) =>
             last.ret.kind =
               IF BeginsWith(last.resp.body.message, <<"g", "r", "o", "u", "p">>)
                 THEN "CrowdNoSuchGroup"
               ELSE IF BeginsWith(last.resp.body.message, <<"u", "s", "e", "r">>)
                 THEN "CrowdNoSuchUser"
               ELSE "CrowdError"
        /\ last.resp.status \notin {204, 404} => last.ret.kind = "CrowdError"

\* C4's case: a 404 whose message is "USER" raised CrowdNoSuchUser.
C4_Witness ==
    /\ last.op = "remove_user_from_group"
    /\ last.resp.status = 404
    /\ last.resp.body = MessageBody(<<"U", "S", "E", "R">>)
    /\ last.ret.kind = "CrowdNoSuchUser"

\* C5: auth_ping returns True exactly on 404, False exactly on 401 and
\* raises CrowdError on every other status.
C5_AuthPingTable ==
    (last.op = "auth_ping" /\ GotResponse) =>
        /\ last.ret = Return("True") <=> last.resp.status = 404
        /\ last.ret = Return("False") <=> last.resp.status = 401
        /\ last.resp.status \notin {401, 404} => last.ret.kind = "CrowdError"
        /\ last.ret.kind \in ReturnKinds => last.resp.status \in {401, 404}

\* C5's case: auth_ping answered 500 raised CrowdError.
C5_Witness ==
    /\ last.op = "auth_ping"
    /\ last.resp.status = 500
    /\ last.ret.kind = "CrowdError"

\* C6: get_user returns None, raising nothing, on 404, returns the parsed
\* attributes on 200, and raises CrowdError on every other status.
C6_GetUserTable ==
    (last.op = "get_user" /\ GotResponse) =>
        /\ last.resp.status = 404 => last.ret = Return("None")
        /\ (last.resp.status = 200 /\ last.resp.body.decodable) => last.ret = Return("Json")
        /\ last.resp.status \notin {200, 404} => last.ret.kind = "CrowdError"

\* C6's case: get_user answered 404 returned None.
C6_Witness ==
    /\ last.op = "get_user"
    /\ last.resp.status = 404
    /\ last.ret = Return("None")

\* C7: a user_exists or group_exists call returns True for an ok status and
\* None for any other, returns what the call before it returned when that
\* was the same call with the same response, and leaves the client's
\* rest URL, credentials and session headers as they were.
C7_ExistsIdempotent ==
    [][(last' # last /\ last'.op \in {"user_exists", "group_exists"}) =>
         /\ (last'.resp # NoResponse) =>
              last'.ret = IF last'.resp.status < 400 THEN Return("True") ELSE Return("None")
         /\ (last.op = last'.op /\ last.resp = last'.resp) => last'.ret = last.ret
         /\ self' = self
         /\ session' = session]_vars

\* C7's case: user_exists called after a get_group_membership (its request
\* went out with the XML headers) and answered 204 returned True.
C7_Witness ==
    /\ last.op = "user_exists"
    /\ SentXML(last.req)
    /\ last.resp.status = 204
    /\ last.ret = Return("True")

\* C8: add_user, remove_user and add_group raise on 403 CrowdAuthDenied
\* with a reason, and nothing else.
C8_ForbiddenIsAuthDenied ==
    (last.op \in {"add_user", "remove_user", "add_group"}
       /\ GotResponse /\ last.resp.status = 403) =>
        /\ last.ret.kind = "CrowdAuthDenied"
        /\ last.ret.text # ""

\* The status codes each method's table lists (spec section 6); a method
\* that tests response.ok lists every code, as ok or as not ok.
ExpectedCodes(op) ==
    CASE op = "auth_ping" -> {401, 404}
      [] op = "auth_user" -> {200, 400}
      [] op = "get_session" -> {201, 400}
      [] op = "terminate_session" -> {204}
      [] op = "add_user" -> {201, 400, 403}
      [] op = "remove_user" -> {204, 403, 404}
      [] op = "add_group" -> {201, 400, 403}
      [] op = "add_user_to_group" -> {201, 400, 404, 409}
      [] op = "add_child_group_to_group" -> {201, 400, 404}
      [] op = "remove_user_from_group" -> {204, 404}
      [] op \in {"get_user", "get_user_direct_group", "get_child_group_direct",
                 "get_group_membership", "get_group_users_direct", "get_groups",
                 "get_nested_groups"} -> {200, 404}
      [] OTHER -> Statuses

\* The methods whose CrowdError message is formatted with the status code.
StatusCarriers == {"add_group", "add_user_to_group", "add_child_group_to_group"}

C10_NoHeaderRace ==
    /\ (last.concurrent /\ last.nreq = 1 /\ last.op # "get_group_membership") =>
         SentJSON(last.req)
    /\ \A c \in Callers : pc[c] = "waiting" => SentXML(inflight[c])

\* The transport raised on the last call's request.
TransportFailed == last.nreq = 1 /\ last.resp = NoResponse

\* The last call read a response body that does not decode.
BodyUndecodable == GotResponse /\ ~last.resp.body.decodable

\* C11: a transport-level failure (the transport raising, or a body that
\* cannot be decoded where the method reads one) reaches the caller as
\* CrowdError, never as a domain error or a raw transport or decoder error,
\* and the call issues no second request.
C11_TransportFailureIsCrowdError ==
    (TransportFailed \/ BodyUndecodable) =>
        /\ last.ret.kind = "CrowdError"
        /\ last.nreq = 1

\* C12: add_user_to_group has a table of its own: 201 returns True, 400
\* raises CrowdNoSuchUser, 404 CrowdNoSuchGroup, 409 CrowdUserExists and any
\* other status CrowdError; the same 400 raises CrowdUserExists in add_user
\* and CrowdGroupExists in add_group.
C12_AddUserToGroupTable ==
    /\ (last.op = "add_user_to_group" /\ GotResponse) =>
         /\ last.resp.status = 201 => last.ret = Return("True")
         /\ last.resp.status = 400 => last.ret = Raise("CrowdNoSuchUser", "")
         /\ last.resp.status = 404 => last.ret = Raise("CrowdNoSuchGroup", "")
         /\ last.resp.status = 409 => last.ret = Raise("CrowdUserExists", "")
         /\ last.resp.status \notin {201, 400, 404, 409} => last.ret.kind = "CrowdError"
    /\ (last.op = "add_user" /\ GotResponse /\ last.resp.status = 400) =>
         last.ret.kind = "CrowdUserExists"
    /\ (last.op = "add_group" /\ GotResponse /\ last.resp.status = 400) =>
         last.ret.kind = "CrowdGroupExists"

\* C12's case: add_user_to_group answered 400 raised CrowdNoSuchUser.
C12_Witness ==
    /\ last.op = "add_user_to_group"
    /\ last.resp.status = 400
    /\ last.ret.kind = "CrowdNoSuchUser"

====
